---------------------------- MODULE Spec2Model ----------------------------
(***************************************************************************)
(* Streaming aggregation-and-signal pipeline of the BTCUSDT trading bot:   *)
(* historical backfill, daily aggregator, crossover detector and position  *)
(* state machine, over a Redis cache and a MongoDB durable store.          *)
(*                                                                         *)
(* Concurrency is asyncio's: a coroutine runs atomically from one await to *)
(* the next, so every action below is one such stretch of one coroutine.   *)
(* Every store call that the source wraps in try/except may fail; the      *)
(* failure is an input of the action (ok \in BOOLEAN).                     *)
(*                                                                         *)
(* Numbers.  Prices and averages are integers, and the quotes are chosen   *)
(* so that every mid-price is one (float rounding is not modelled).  Days  *)
(* are numbered.  Window lengths, the queue capacity and the retention     *)
(* count are scaled down; their source values are noted at each one.       *)
(***************************************************************************)
EXTENDS Integers, Sequences, FiniteSets, TLC

VARIABLES
    \* ---- Redis
    position,       \* key position:BTCUSDT : None | "FLAT" | "LONG"
    cache,          \* list prices:BTCUSDT:derived_1d, head first, of strings
    \* ---- MongoDB
    orders,         \* collection orders, in insertion order
    daily_derived_prices,  \* collection daily_derived_prices, in insertion order
    \* ---- process_signal tasks
    ps,             \* task slot -> frame of one process_signal call
    calls,          \* number of process_signal calls started so far
    lastSignal,     \* signal_type of the most recently started call
    lastWriter,     \* call whose set_position last changed the stored position
    faults,         \* number of store operations that have failed so far
    \* ---- application (main, data_processor)
    phase,          \* "boot" (before fetch_historical_data) | "live"
    boots,          \* number of times main() has been started
    queue,          \* asyncio.Queue between listener and data_processor
    current_day,    \* data_processor local
    last_mid_price, \* data_processor local
    agg,            \* data_processor position and the locals of a rollover
    dispatched,     \* check_sma_crossover tasks created, in creation order
    cacheStep,      \* outcome of the latest cache-population step
    \* ---- history of the tick stream folded so far (observation only)
    lastTick,       \* day and mid of the last valid tick of the latest day
    ordered,        \* every tick folded so far was valid and in day order
    orderedDays,    \* the days of those ticks, while ordered
    derived,        \* closes derived by data_processor, in order
    lastKlines,     \* klines parsed by the backfill of this start, oldest first
    backfillDone,   \* klines and records of the latest bulk save, until a live save
    cacheDays,      \* the day of each entry of cache, entry by entry
    \* ---- crossover decision under test
    xin,            \* inputs: current and previous averages
    xout,           \* the signals emitted, {"pending"} before the decision
    \* ---- websocket_listener
    listener,       \* position of the listener, the item of a suspended put,
                    \* the latest message received (less its time) and
                    \* the number of messages received
    conn,           \* the connection: "none" | "open" | "closed" (lost)
    ws_status,      \* key websocket_status:BTCUSDT
    sent,           \* number of items the listener has put or is putting
    \* ---- check_sma_crossover tasks
    signals,        \* collection signals, in insertion order
    previous_sma,   \* hash previous_sma:BTCUSDT
    det,            \* task slot -> frame of one check_sma_crossover run
    detStarted,     \* number of created detector tasks that have started
    triggers,       \* for each process_signal call, the detector run creating it
    lastEligible,   \* run and averages of the latest run that came to store them,
                    \* and whether such a run has had equal averages
    overlapped,     \* a run has started while another was in flight
    \* ---- calculate_sma under test
    smaIn,          \* inputs: prices and period
    smaOut          \* the value returned, <<>> before the call

storeVars == <<position, cache, orders, daily_derived_prices>>
psVars    == <<ps, calls, lastSignal, lastWriter>>
appVars   == <<phase, boots, queue, current_day, last_mid_price, agg,
               dispatched, cacheStep>>
histVars  == <<lastTick, ordered, orderedDays, derived, lastKlines, cacheDays,
               backfillDone>>
xVars     == <<xin, xout>>
wsVars    == <<listener, conn, ws_status, sent>>
detVars   == <<signals, previous_sma, det, detStarted, triggers, lastEligible,
               overlapped>>
smaVars   == <<smaIn, smaOut>>
moreVars  == <<wsVars, detVars, smaVars>>
vars      == <<storeVars, psVars, faults, appVars, histVars, xVars, moreVars>>

None    == "None"     \* None where the other values are strings
NoDay   == 0          \* None where the other values are days
NoPrice == 0          \* None where the other values are prices
NoAvg   == -1         \* None where the other values are averages
SYMBOL  == "BTCUSDT"

-----------------------------------------------------------------------------
(* Bounds of the model *)

MaxTasks == 2       \* process_signal task slots
MaxCalls == 3       \* process_signal calls in one run
MaxDay   == 3       \* number of calendar days of the live feed
MaxBootDay == 2     \* number of calendar days of the feed across restarts
MaxBoots == 2       \* starts of main() in one run
MaxFaults == 1      \* failing store operations in one run
MaxAvg   == 2       \* averages of the crossover decision are 0..MaxAvg
MaxDet   == 1       \* check_sma_crossover task slots
MaxPrice == 3       \* prices given to calculate_sma: 1..MaxPrice
MaxSigDay == 5      \* number of calendar days of the feed of SpecSignals
MaxSkipped == 2     \* messages the listener drops in one run
MaxTicks == 3       \* items the listener puts in one run

\* Program constants scaled down (source value in the comment)
SHORT_SMA_PERIOD    == 2   \* 50,   signal_calculator.py:8
LONG_SMA_PERIOD     == 3   \* 200,  signal_calculator.py:9
CacheMargin         == 1   \* the 50 of LONG_SMA_PERIOD + 50, main.py:106
DAYS_HISTORY_NEEDED == 4   \* 250,  historical.py:11

\* asyncio.Queue(maxsize=1000) of main(), scaled down
QueueMaxSize        == 2

Today        == DAYS_HISTORY_NEEDED + 1    \* the day main() is started on
Days         == Today..(Today + MaxDay - 1) \* the days of the live feed
BootDays     == Today..(Today + MaxBootDay - 1)
SignalTypes  == {"BUY", "SELL", "HOLD"}   \* "HOLD": an unrecognized type
SignalPrices == {1, 2}
TaskIds      == 1..MaxTasks
DetIds       == 1..MaxDet

-----------------------------------------------------------------------------
(* Store primitives *)

\* n store operations of the step fail (raise).
Fails(n) ==
    /\ faults + n <= MaxFaults
    /\ faults' = faults + n

\* str(price) and float(string): a string is a record around the number.
Str(p)   == [str |-> p]
Float(s) == s.str

\* date.isoformat(): the key string of a day.
isoformat(d) == [iso |-> d]

RECURSIVE LPushAll(_, _)
\* Redis LPUSH key v1 v2 ...: each value in turn becomes the new head.
LPushAll(list, values) ==
    IF values = <<>> THEN list
    ELSE LPushAll(<<Head(values)>> \o list, Tail(values))

LPushAppends(list, values) == list \o values
LPush(list, values) == LPushAll(list, values)

LTrimKeepsTail(list, start, stop) ==
    IF Len(list) <= stop + 1 THEN list
    ELSE SubSeq(list, Len(list) - stop, Len(list))
\* Redis LTRIM key start stop (0-based, inclusive), for 0 <= start <= stop.
LTrim(list, start, stop) ==
    SubSeq(list, start + 1, IF stop + 1 < Len(list) THEN stop + 1 ELSE Len(list))

\* Redis LRANGE key start stop.
LRange(list, start, stop) == LTrim(list, start, stop)

Reverse(s) == [i \in 1..Len(s) |-> s[Len(s) + 1 - i]]

InsertOne(coll, filter, fields) ==
    Append(coll, [date |-> filter.date, symbol |-> filter.symbol,
                  price |-> fields.price, is_historical |-> fields.is_historical])
\* collection.update_one(filter, {'$set': fields}, upsert=True): the first
\* document matching the filter gets the fields; with none, one is inserted.
\* is_historical is FALSE where the field is not set.
UpdateOneUpsert(coll, filter, fields) ==
    LET hits == {i \in 1..Len(coll) : /\ coll[i].date = filter.date
                                      /\ coll[i].symbol = filter.symbol}
    IN  IF hits = {}
        THEN Append(coll, [date |-> filter.date, symbol |-> filter.symbol,
                           price |-> fields.price,
                           is_historical |-> fields.is_historical])
        ELSE LET i == CHOOSE k \in hits : \A j \in hits : k <= j
             IN  [coll EXCEPT ![i].price = fields.price,
                              ![i].is_historical =
                                  (coll[i].is_historical \/ fields.is_historical)]

-----------------------------------------------------------------------------
(* Position state machine: order_manager.process_signal *)

IdleFrame == [pc |-> "idle", call |-> 0, signal_type |-> None,
              price_at_signal |-> 0, prevSignal |-> None,
              current_position |-> None, new_position |-> None,
              side |-> None, startPos |-> None, endPos |-> None,
              orderWriteFailed |-> FALSE]

InFlight(t) == ps[t].pc \in {"get_position", "save_order", "set_position"}
Completed(t) == ps[t].pc \in {"done", "raised"}

\* persistence.get_position: the stored value, None when the key is absent
\* and None as well when the read raises.
get_position(ok) == IF ok THEN position ELSE None

\* The if/elif/else of process_signal: the side of the order to log (None
\* for no order) and the new position.
Decide(signal_type, current) ==
    IF signal_type = "BUY"
    THEN IF current = "FLAT" THEN [side |-> "BUY", new_position |-> "LONG"]
         ELSE [side |-> None, new_position |-> current]
    ELSE IF signal_type = "SELL"
    THEN IF current = "LONG" THEN [side |-> "SELL", new_position |-> "FLAT"]
         ELSE [side |-> None, new_position |-> current]
    ELSE [side |-> None, new_position |-> current]

\* 'signal_based_on_date' of the order: with the UTC hour below 1 the
\* expression reads timedelta, a name the module never imports.
OrderDateRaises(hourBelowOne) == hourBelowOne

\* asyncio.create_task(process_signal(...)) into the free slot t.
ps_create(t, signal_type, price) ==
    /\ ~InFlight(t)
    /\ calls < MaxCalls
    /\ calls' = calls + 1
    /\ lastSignal' = signal_type
    /\ ps' = [ps EXCEPT ![t] =
                 [IdleFrame EXCEPT !.pc = "get_position", !.call = calls + 1,
                                   !.signal_type = signal_type,
                                   !.price_at_signal = price,
                                   !.prevSignal = lastSignal,
                                   !.startPos = position]]

\* A process_signal call started with an arbitrary signal.
ps_start(t, signal_type, price) ==
    /\ ps_create(t, signal_type, price)
    /\ UNCHANGED <<storeVars, lastWriter, faults, appVars, histVars, xVars, moreVars>>

\* await get_position; then up to the next await: the decision, the order
\* dict, and either the call of save_order, the NameError, or the return.
ps_get_position(t, ok, hourBelowOne) ==
    /\ ps[t].pc = "get_position"
    /\ LET got == get_position(ok)
           cur == IF got = None THEN "FLAT" ELSE got
           d   == Decide(ps[t].signal_type, cur)
           pc2 == IF d.side = None THEN "done"
                  ELSE IF OrderDateRaises(hourBelowOne) THEN "raised"
                  ELSE "save_order"
       IN  ps' = [ps EXCEPT ![t].current_position = cur,
                            ![t].new_position = d.new_position,
                            ![t].side = d.side,
                            ![t].pc = pc2,
                            ![t].endPos = IF pc2 \in {"done", "raised"}
                                          THEN position ELSE None]
    /\ Fails(IF ok THEN 0 ELSE 1)
    /\ UNCHANGED <<storeVars, calls, lastSignal, lastWriter, appVars,
                   histVars, xVars, moreVars>>

\* persistence.save_order: insert_one, an error logged and not re-raised.
save_order(ok, doc) == IF ok THEN Append(orders, doc) ELSE orders

\* await save_order(...), then the call of set_position.
ps_save_order(t, ok) ==
    /\ ps[t].pc = "save_order"
    /\ orders' = save_order(ok, [side |-> ps[t].side,
                                 price |-> ps[t].price_at_signal,
                                 call |-> ps[t].call])
    /\ ps' = [ps EXCEPT ![t].pc = "set_position",
                        ![t].orderWriteFailed = ~ok]
    /\ Fails(IF ok THEN 0 ELSE 1)
    /\ UNCHANGED <<position, cache, daily_derived_prices, calls, lastSignal,
                   lastWriter, appVars, histVars, xVars, moreVars>>

\* persistence.set_position: SET, an error logged and not re-raised.
set_position(ok, state) == IF ok THEN state ELSE position

\* await set_position(...), then the return.
ps_set_position(t, ok) ==
    /\ ps[t].pc = "set_position"
    /\ position' = set_position(ok, ps[t].new_position)
    /\ lastWriter' = IF position' # position THEN ps[t].call ELSE lastWriter
    /\ ps' = [ps EXCEPT ![t].pc = "done", ![t].endPos = position']
    /\ Fails(IF ok THEN 0 ELSE 1)
    /\ UNCHANGED <<cache, orders, daily_derived_prices, calls, lastSignal,
                   appVars, histVars, xVars, moreVars>>

-----------------------------------------------------------------------------
(* Historical backfill: historical.fetch_historical_data *)

\* The close price of day d on the exchange: each day has its own.
KlineClose(d) == d

\* A response of n daily klines, oldest first, the newest one of Today;
\* with bad = n the fields of the newest one do not parse.  The request
\* spans DAYS_HISTORY_NEEDED days, which hold DAYS_HISTORY_NEEDED daily
\* candles or one more; an empty response is the third case.
KlineResponses ==
    UNION {{[i \in 1..n |-> [day |-> Today - n + i,
                             close |-> KlineClose(Today - n + i),
                             parses |-> (i # bad)]] : bad \in {0, n}} :
           n \in {0, DAYS_HISTORY_NEEDED, DAYS_HISTORY_NEEDED + 1}}

\* The parse loop: a kline that does not parse is skipped.
ParseKlines(klines) == SelectSeq(klines, LAMBDA k : k.parses)

BulkInsert(coll, docs) ==
    coll \o [i \in DOMAIN docs |->
                [date |-> isoformat(docs[i].day), symbol |-> SYMBOL,
                 price |-> docs[i].close, is_historical |-> TRUE]]
RECURSIVE BulkUpsert(_, _)
\* bulk_write of one UpdateOne(..., upsert=True) per document.
BulkUpsert(coll, docs) ==
    IF docs = <<>> THEN coll
    ELSE BulkUpsert(UpdateOneUpsert(coll,
                        [date |-> isoformat(Head(docs).day), symbol |-> SYMBOL],
                        [price |-> Head(docs).close, is_historical |-> TRUE]),
                    Tail(docs))

\* The cache population of the backfill, cut short by the first store call
\* that raises (failAt): delete, lpush of the reversed list, ltrim.
BackfillCache(list, to_cache, failAt) ==
    IF failAt = "delete" THEN list
    ELSE IF failAt = "lpush" THEN <<>>
    ELSE LET pushed == LPush(<<>>, Reverse(to_cache))
         IN  IF failAt = "ltrim" THEN pushed
             ELSE LTrim(pushed, 0, DAYS_HISTORY_NEEDED - 1)

\* The Daily Close records of a collection: key and price, in stored order.
Records(coll) ==
    [i \in DOMAIN coll |-> [date |-> coll[i].date, symbol |-> coll[i].symbol,
                            price |-> coll[i].price]]
NoBackfill == [klines |-> <<>>, records |-> <<>>, runs |-> 0]

FreshAgg == [pc |-> "get", day |-> NoDay, price |-> NoPrice,
             event_date |-> NoDay, mid_price |-> NoPrice]
NoTick == [day |-> NoDay, mid |-> NoPrice]

\* main() up to the start of the two tasks: fetch_historical_data runs to
\* its end before anything else is scheduled.  A bulk write that raises is
\* taken to have written nothing.
fetch_historical_data(httpOk, klines, bulkOk, failAt) ==
    /\ phase = "boot"
    /\ boots < MaxBoots
    /\ boots' = boots + 1
    /\ phase' = "live"
    /\ LET parsed == IF httpOk THEN ParseKlines(klines) ELSE <<>>
           prices_to_cache == [i \in 1..Len(parsed) |-> parsed[i].close]
           days_to_cache == [i \in 1..Len(parsed) |-> parsed[i].day]
       IN  /\ (parsed = <<>>) => (bulkOk /\ failAt = "none")
           /\ daily_derived_prices' =
                  IF bulkOk THEN BulkUpsert(daily_derived_prices, parsed)
                  ELSE daily_derived_prices
           /\ cache' = IF parsed = <<>> THEN cache
                       ELSE BackfillCache(cache,
                                [i \in 1..Len(parsed) |-> Str(prices_to_cache[i])],
                                failAt)
           /\ cacheDays' = IF parsed = <<>> THEN cacheDays
                           ELSE BackfillCache(cacheDays, days_to_cache, failAt)
           /\ cacheStep' = IF parsed = <<>> THEN cacheStep
                           ELSE IF failAt = "none" THEN "backfilled"
                           ELSE "failed"
           /\ lastKlines' = IF parsed = <<>> THEN lastKlines ELSE parsed
           /\ backfillDone' =
                  IF parsed = <<>> \/ ~bulkOk THEN backfillDone
                  ELSE [klines |-> parsed,
                        records |-> Records(daily_derived_prices'),
                        runs |-> IF backfillDone.klines = parsed
                                 THEN backfillDone.runs + 1 ELSE 1]
           /\ Fails((IF bulkOk THEN 0 ELSE 1) + (IF failAt = "none" THEN 0 ELSE 1))
    /\ UNCHANGED <<position, orders, psVars, queue, current_day, last_mid_price,
                   agg, dispatched, lastTick, ordered, orderedDays, derived,
                   xVars, moreVars>>

\* The process ends and is started again: tasks, queue and locals are gone,
\* the stores keep their content.
Restart ==
    /\ phase = "live"
    /\ boots < MaxBoots
    /\ phase' = "boot"
    /\ queue' = <<>>
    /\ current_day' = NoDay
    /\ last_mid_price' = NoPrice
    /\ agg' = FreshAgg
    /\ dispatched' = <<>>
    /\ lastTick' = NoTick
    /\ ordered' = TRUE
    /\ orderedDays' = {}
    /\ derived' = <<>>
    /\ cacheStep' = "none"
    /\ lastKlines' = <<>>
    /\ UNCHANGED <<storeVars, psVars, faults, boots, cacheDays, backfillDone,
                   xVars, moreVars>>

-----------------------------------------------------------------------------
(* Transport queue and daily aggregator: main.websocket_listener's put and *)
(* main.data_processor                                                     *)

\* Quotes (bid, ask) of the feed.  bid + ask is even for every valid one, so
\* the division by 2.0 is exact.  data_processor drops an invalid quote
\* before it looks at the timestamp, so these come with one timestamp only.
Quotes == {<<0, 1>>, <<1, 0>>, <<1, 1>>, <<1, 3>>}
Ticks  ==
    {[ts |-> d, bid |-> q[1], ask |-> q[2]] :
        d \in Days, q \in {r \in Quotes : r[1] > 0 /\ r[2] > 0}}
    \cup {[ts |-> Today, bid |-> q[1], ask |-> q[2]] :
             q \in {r \in Quotes : r[1] <= 0 \/ r[2] <= 0}}

MidPrice(bid, ask) == (bid + ask) \div 2

\* datetime.fromtimestamp(ts, tz=utc).date(): a timestamp is kept as its day.
EventDate(ts) == ts

IsRolloverOrSameDay(event_date, day) == event_date >= day
IsOtherDay(event_date, day) == event_date # day
\* The day change check.
IsRollover(event_date, day) == event_date > day

DerivedCloseOfNewTick(last, mid) == mid
\* derived_close_price = last_mid_price
DerivedClose(last, mid) == last

\* await queue.put({...}) of the listener, which waits while the queue is full.
queue_put(tick) ==
    /\ phase = "live"
    /\ Len(queue) < QueueMaxSize
    /\ queue' = Append(queue, tick)
    /\ UNCHANGED <<storeVars, psVars, faults, phase, boots, current_day,
                   last_mid_price, agg, dispatched, cacheStep, histVars, xVars, moreVars>>

\* The history of the stream after folding a valid tick of day d and mid m.
FoldLastTick(d, m) ==
    IF lastTick = NoTick \/ d >= lastTick.day THEN [day |-> d, mid |-> m]
    ELSE lastTick
StaysOrdered(d) == ordered /\ \A e \in orderedDays : e <= d

QueueGetNewest(q) == [item |-> q[Len(q)], rest |-> SubSeq(q, 1, Len(q) - 1)]
\* asyncio.Queue.get(): the item at the left end of the deque is removed.
QueueGet(q) == [item |-> Head(q), rest |-> Tail(q)]

\* item = await queue.get(), and the loop body up to its next await: the
\* whole body, or on a day change up to the call of save_derived_price.
InvalidBid(bid, ask) == bid <= 0
\* if bid <= 0 or ask <= 0
InvalidQuote(bid, ask) == bid <= 0 \/ ask <= 0

dp_get ==
    /\ phase = "live"
    /\ agg.pc = "get"
    /\ queue # <<>>
    /\ queue' = QueueGet(queue).rest
    /\ LET item == QueueGet(queue).item
           mid_price == MidPrice(item.bid, item.ask)
           event_date == EventDate(item.ts)
       IN  IF InvalidQuote(item.bid, item.ask)
           THEN /\ ordered' = FALSE
                /\ orderedDays' = {}
                /\ UNCHANGED <<current_day, last_mid_price, agg, lastTick, derived>>
           ELSE /\ lastTick' = FoldLastTick(event_date, mid_price)
                /\ ordered' = StaysOrdered(event_date)
                /\ orderedDays' = IF StaysOrdered(event_date)
                                  THEN orderedDays \cup {event_date} ELSE {}
                /\ IF current_day = NoDay
                   THEN /\ current_day' = event_date
                        /\ last_mid_price' = mid_price
                        /\ UNCHANGED <<agg, derived>>
                   ELSE IF IsRollover(event_date, current_day)
                   THEN IF last_mid_price # NoPrice
                        THEN /\ agg' = [pc |-> "save", day |-> current_day,
                                        price |-> DerivedClose(last_mid_price, mid_price),
                                        event_date |-> event_date,
                                        mid_price |-> mid_price]
                             /\ derived' = Append(derived,
                                    [day |-> current_day,
                                     price |-> DerivedClose(last_mid_price, mid_price)])
                             /\ UNCHANGED <<current_day, last_mid_price>>
                        ELSE /\ current_day' = event_date
                             /\ last_mid_price' = mid_price
                             /\ UNCHANGED <<agg, derived>>
                   ELSE IF event_date = current_day
                   THEN /\ last_mid_price' = mid_price
                        /\ UNCHANGED <<current_day, agg, derived>>
                   ELSE UNCHANGED <<current_day, last_mid_price, agg, derived>>
    /\ UNCHANGED <<storeVars, psVars, faults, phase, boots, dispatched,
                   cacheStep, lastKlines, cacheDays, backfillDone, xVars, moreVars>>

\* persistence.save_derived_price: the upsert, an error logged and swallowed.
save_derived_price(ok, day_date, price, symbol) ==
    IF ok
    THEN UpdateOneUpsert(daily_derived_prices,
                         [date |-> isoformat(day_date), symbol |-> symbol],
                         [price |-> price, is_historical |-> FALSE])
    ELSE daily_derived_prices

\* await save_derived_price(...), then the call of add_derived_price_to_cache.
dp_save_derived_price(ok) ==
    /\ agg.pc = "save"
    /\ daily_derived_prices' = save_derived_price(ok, agg.day, agg.price, SYMBOL)
    /\ agg' = [agg EXCEPT !.pc = "lpush"]
    /\ backfillDone' = IF ok THEN NoBackfill ELSE backfillDone
    /\ Fails(IF ok THEN 0 ELSE 1)
    /\ UNCHANGED <<position, cache, orders, psVars, phase, boots, queue,
                   current_day, last_mid_price, dispatched, cacheStep,
                   lastTick, ordered, orderedDays, derived, lastKlines,
                   cacheDays, xVars, moreVars>>

\* The end of a day change: the detector task is created and the state of
\* the new day is set; then the loop is back at queue.get().
EndRollover ==
    /\ dispatched' = Append(dispatched, [calculation_date |-> agg.day,
                                         derived_close_price |-> agg.price])
    /\ current_day' = agg.event_date
    /\ last_mid_price' = agg.mid_price
    /\ agg' = FreshAgg

\* add_derived_price_to_cache, await lpush: on an error the function logs
\* and returns, and the day change ends without the trim.
dp_lpush(ok) ==
    /\ agg.pc = "lpush"
    /\ IF ok
       THEN /\ cache' = LPush(cache, <<Str(agg.price)>>)
            /\ cacheDays' = LPush(cacheDays, <<agg.day>>)
            /\ agg' = [agg EXCEPT !.pc = "ltrim"]
            /\ UNCHANGED <<dispatched, current_day, last_mid_price, cacheStep>>
       ELSE /\ EndRollover
            /\ cacheStep' = "failed"
            /\ UNCHANGED <<cache, cacheDays>>
    /\ Fails(IF ok THEN 0 ELSE 1)
    /\ UNCHANGED <<position, orders, daily_derived_prices, psVars, phase, boots,
                   queue, lastTick, ordered, orderedDays, derived, lastKlines,
                   backfillDone, xVars, moreVars>>

\* add_derived_price_to_cache, await ltrim(key, 0, max_len - 1) with
\* max_len = LONG_SMA_PERIOD + 50; then the end of the day change.
dp_ltrim(ok) ==
    /\ agg.pc = "ltrim"
    /\ cache' = IF ok THEN LTrim(cache, 0, LONG_SMA_PERIOD + CacheMargin - 1)
                ELSE cache
    /\ cacheDays' = IF ok THEN LTrim(cacheDays, 0, LONG_SMA_PERIOD + CacheMargin - 1)
                    ELSE cacheDays
    /\ cacheStep' = IF ok THEN "pushed" ELSE "failed"
    /\ EndRollover
    /\ Fails(IF ok THEN 0 ELSE 1)
    /\ UNCHANGED <<position, orders, daily_derived_prices, psVars, phase, boots,
                   queue, lastTick, ordered, orderedDays, derived, lastKlines,
                   backfillDone, xVars, moreVars>>

-----------------------------------------------------------------------------
(* Ingestor: main.websocket_listener *)

\* The ticker messages of the feed: receive day and quote.
Messages == {[ts |-> d, bid |-> 1, ask |-> 1] : d \in BootDays}

\* No item: the listener is not in a put.
NoItem == [ts |-> NoDay, bid |-> 0, ask |-> 0, update_id |-> 0]

\* A message as received.  kind: "not_json" (json.loads raises),
\* "not_object" (JSON, but data.get raises) or "object".  The fields b and
\* a of an object: "missing" (data.get gives None), "empty" (''), "text"
\* (a string float() rejects) or "num" (the string of the quote 1).  s is
\* the symbol or "missing".  ts is the day time.time() falls on.
Raw(kind, b, a, sym, ts) == [kind |-> kind, b |-> b, a |-> a, s |-> sym, ts |-> ts]

\* The ticker message of the configured instrument, as received.
Ticker(m) == Raw("object", "num", "num", SYMBOL, m.ts)

\* Messages that are not such a ticker message.
BadMessages ==
    {Raw("not_json", "missing", "missing", "missing", Today),
     Raw("not_object", "missing", "missing", "missing", Today),
     Raw("object", "missing", "num", SYMBOL, Today),
     Raw("object", "num", "missing", SYMBOL, Today),
     Raw("object", "empty", "num", SYMBOL, Today),
     Raw("object", "num", "empty", SYMBOL, Today),
     Raw("object", "text", "num", SYMBOL, Today),
     Raw("object", "num", "text", SYMBOL, Today),
     Raw("object", "num", "num", "ETHUSDT", Today),
     Raw("object", "num", "num", "missing", Today)}

NoMessage == Raw("none", "missing", "missing", "missing", NoDay)

\* Truth value of data.get(field).
Truthy(f) == f \in {"text", "num"}
\* float(field) of a truthy field.
FloatRaises(f) == f = "text"
float(f) == IF f = "num" THEN 1 ELSE 0

AcceptedAnySymbol(raw) ==
    /\ raw.kind = "object"
    /\ Truthy(raw.b) /\ Truthy(raw.a)
    /\ ~FloatRaises(raw.b) /\ ~FloatRaises(raw.a)
\* The message gets to queue.put: json.loads and data.get do not raise,
\* the test on bid, ask and symbol passes and both floats parse.
Accepted(raw) ==
    /\ raw.kind = "object"
    /\ Truthy(raw.b) /\ Truthy(raw.a) /\ raw.s = SYMBOL
    /\ ~FloatRaises(raw.b) /\ ~FloatRaises(raw.a)

QueueNeverFull(q) == FALSE
\* asyncio.Queue.full()
Full(q) == Len(q) >= QueueMaxSize

StatusThenGiveUp(pc) ==
    IF pc = "st_connected" THEN "recv"
    ELSE IF pc = "st_error" THEN "stopped" ELSE "sleep"
\* Where the listener goes after an update_websocket_status: into the
\* receive loop, or out of the try to the reconnect delay.
AfterStatus(pc) == IF pc = "st_connected" THEN "recv" ELSE "sleep"

StatusAlwaysError(pc) == "error"
\* The status each call of update_websocket_status passes.
StatusValue(pc) ==
    IF pc = "st_connected" THEN "connected"
    ELSE IF pc = "st_disconnected" THEN "disconnected" ELSE "error"

notWs == <<storeVars, psVars, phase, boots, current_day, last_mid_price, agg,
           dispatched, cacheStep, histVars, xVars, detVars, smaVars>>

\* async with websockets.connect(url): the connection opens, or the
\* connect raises and the except of the outer try reports "error".
ws_connect(ok) ==
    /\ phase = "live"
    /\ listener.pc = "connect"
    /\ conn' = IF ok THEN "open" ELSE "none"
    /\ listener' = [listener EXCEPT !.pc = IF ok THEN "st_connected" ELSE "st_error"]
    /\ UNCHANGED <<notWs, queue, faults, ws_status, sent>>

\* await persistence.update_websocket_status(...): SET, an error logged and
\* swallowed.  After "disconnected" the break leaves the async with, which
\* closes the connection.
ws_update_status(ok) ==
    /\ listener.pc \in {"st_connected", "st_disconnected", "st_error"}
    /\ ws_status' = IF ok THEN StatusValue(listener.pc) ELSE ws_status
    /\ listener' = [listener EXCEPT !.pc = AfterStatus(listener.pc)]
    /\ conn' = IF listener.pc = "st_connected" THEN conn ELSE "none"
    /\ Fails(IF ok THEN 0 ELSE 1)
    /\ UNCHANGED <<notWs, queue, sent>>

\* message = await ws.recv() returns a message.  One that is accepted is
\* put, or with the queue full the put suspends the listener; any other is
\* dropped (by the test, or by an except of the inner try) and the loop is
\* back at ws.recv().
ws_recv(raw) ==
    /\ listener.pc = "recv"
    /\ conn = "open"
    /\ IF Accepted(raw)
       THEN /\ sent < MaxTicks
            /\ sent' = sent + 1
            /\ LET item == [ts |-> raw.ts, bid |-> float(raw.b),
                            ask |-> float(raw.a), update_id |-> sent + 1]
               IN  IF Full(queue)
                   THEN /\ listener' = [listener EXCEPT
                                           !.pc = "put", !.item = item,
                                           !.last = [raw EXCEPT !.ts = NoDay],
                                           !.received = @ + 1]
                        /\ UNCHANGED queue
                   ELSE /\ queue' = Append(queue, item)
                        /\ listener' = [listener EXCEPT
                                           !.last = [raw EXCEPT !.ts = NoDay],
                                           !.received = @ + 1]
       ELSE /\ listener.received - sent < MaxSkipped
            /\ listener' = [listener EXCEPT
                               !.last = [raw EXCEPT !.ts = NoDay],
                               !.received = @ + 1]
            /\ UNCHANGED <<queue, sent>>
    /\ UNCHANGED <<notWs, faults, conn, ws_status>>

\* The suspended put resumes once the queue has room.
ws_put_resume ==
    /\ listener.pc = "put"
    /\ ~Full(queue)
    /\ queue' = Append(queue, listener.item)
    /\ listener' = [listener EXCEPT !.pc = "recv", !.item = NoItem]
    /\ UNCHANGED <<notWs, faults, conn, ws_status, sent>>

\* The peer or the network ends the connection.
ws_lost ==
    /\ conn = "open"
    /\ conn' = "closed"
    /\ UNCHANGED <<notWs, queue, faults, listener, ws_status, sent>>

\* await ws.recv() raises ConnectionClosed: the except reports
\* "disconnected".
ws_recv_closed ==
    /\ listener.pc = "recv"
    /\ conn = "closed"
    /\ listener' = [listener EXCEPT !.pc = "st_disconnected"]
    /\ UNCHANGED <<notWs, queue, faults, conn, ws_status, sent>>

\* await asyncio.sleep(5) ends and the while loop connects again.
ws_sleep ==
    /\ listener.pc = "sleep"
    /\ listener' = [listener EXCEPT !.pc = "connect"]
    /\ UNCHANGED <<notWs, queue, faults, conn, ws_status, sent>>

-----------------------------------------------------------------------------
(* Moving averages: signal_calculator.calculate_sma                        *)

RECURSIVE SumSeq(_)
\* sum(prices)
SumSeq(prices) ==
    IF prices = <<>> THEN 0 ELSE Head(prices) + SumSeq(Tail(prices))

RECURSIVE Fact(_)
Fact(n) == IF n <= 1 THEN 1 ELSE n * Fact(n - 1)

\* An average is kept as the exact multiple of 1/AvgDen; AvgDen is a
\* multiple of every period up to LONG_SMA_PERIOD.
AvgDen == Fact(LONG_SMA_PERIOD)

MeanOfLast(prices, period) ==
    IF prices = <<>> \/ Len(prices) < period THEN NoAvg
    ELSE (SumSeq(SubSeq(prices, Len(prices) - period + 1, Len(prices))) * AvgDen)
             \div period
\* calculate_sma: None without enough prices, else sum(prices[:period]) /
\* period.
calculate_sma(prices, period) ==
    IF prices = <<>> \/ Len(prices) < period THEN NoAvg
    ELSE (SumSeq(SubSeq(prices, 1, period)) * AvgDen) \div period

\* One call calculate_sma(prices, period) on the input drawn at the start.
sma_call ==
    /\ smaIn # <<>>
    /\ smaOut = <<>>
    /\ smaOut' = <<calculate_sma(smaIn[1].prices, smaIn[1].period)>>
    /\ UNCHANGED <<storeVars, psVars, faults, appVars, histVars, xVars, wsVars,
                   detVars, smaIn>>

-----------------------------------------------------------------------------
(* Crossover decision: the tail of signal_calculator.check_sma_crossover   *)

CrossoverSignalLevel(cur_short, cur_long, prev_short, prev_long) ==
    IF prev_short = NoAvg \/ prev_long = NoAvg THEN None
    ELSE IF cur_short > cur_long THEN "BUY"
    ELSE IF cur_short < cur_long THEN "SELL"
    ELSE None
CrossoverSignalStrict(cur_short, cur_long, prev_short, prev_long) ==
    IF prev_short = NoAvg \/ prev_long = NoAvg THEN None
    ELSE IF cur_short > cur_long /\ prev_short < prev_long THEN "BUY"
    ELSE IF cur_short < cur_long /\ prev_short > prev_long THEN "SELL"
    ELSE None
\* The signal decided from the current and the previous averages: None
\* when a previous average is missing (the early return) or nothing crossed.
CrossoverSignal(cur_short, cur_long, prev_short, prev_long) ==
    IF prev_short = NoAvg \/ prev_long = NoAvg THEN None
    ELSE IF cur_short > cur_long /\ prev_short <= prev_long THEN "BUY"
    ELSE IF cur_short < cur_long /\ prev_short >= prev_long THEN "SELL"
    ELSE None

\* `if signal:` saves one Signal record and creates one process_signal task.
EmittedSignals(signal) == IF signal # None THEN {signal} ELSE {}

\* One run of the decision on the inputs xin.
decide_crossover ==
    /\ xout = {"pending"}
    /\ xout' = EmittedSignals(CrossoverSignal(xin.short, xin.long,
                                              xin.prev_short, xin.prev_long))
    /\ UNCHANGED <<storeVars, psVars, faults, appVars, histVars, xin, moreVars>>

-----------------------------------------------------------------------------
(* Crossover detector: signal_calculator.check_sma_crossover               *)

\* The hash with no field set.
NoPrev == [sma_50 |-> Str(NoAvg), sma_200 |-> Str(NoAvg)]

IdleRun == [pc |-> "idle", run |-> 0, calculation_date |-> NoDay,
            derived_close_price |-> NoPrice, prices |-> <<>>,
            head_day |-> NoDay,
            current_sma_short |-> NoAvg, current_sma_long |-> NoAvg,
            prev_sma_short |-> NoAvg, prev_sma_long |-> NoAvg,
            signal |-> None]

NoEligible == [run |-> 0, sma_short |-> NoAvg, sma_long |-> NoAvg,
               tied |-> FALSE]

RunInFlight(r) == det[r].pc \notin {"idle", "done"}

notDet == <<position, orders, daily_derived_prices, cache, lastWriter, appVars,
            histVars, xVars, wsVars, smaVars>>

\* A task created by data_processor starts to run, in creation order.
det_start(r) ==
    /\ ~RunInFlight(r)
    /\ detStarted < Len(dispatched)
    /\ detStarted' = detStarted + 1
    /\ det' = [det EXCEPT ![r] =
                  [IdleRun EXCEPT
                      !.pc = "get_prices", !.run = detStarted + 1,
                      !.calculation_date =
                          dispatched[detStarted + 1].calculation_date,
                      !.derived_close_price =
                          dispatched[detStarted + 1].derived_close_price]]
    /\ overlapped' = (overlapped \/ \E q \in DetIds : RunInFlight(q))
    /\ UNCHANGED <<notDet, faults, signals, previous_sma, triggers, ps, calls,
                   lastSignal, lastEligible>>

\* persistence.get_prices_from_cache: the first count entries as floats,
\* [] when the read raises.
get_prices_from_cache(ok, count) ==
    IF ok THEN [i \in DOMAIN LRange(cache, 0, count - 1) |->
                   Float(LRange(cache, 0, count - 1)[i])]
    ELSE <<>>

AfterPricesShortOnly(prices, sma_short, sma_long) ==
    IF prices = <<>> \/ sma_short = NoAvg THEN "done" ELSE "get_prev"
\* The returns before the averages are used: no prices, fewer than
\* LONG_SMA_PERIOD prices, an average that is None.
AfterPrices(prices, sma_short, sma_long) ==
    IF prices = <<>> THEN "done"
    ELSE IF Len(prices) < LONG_SMA_PERIOD THEN "done"
    ELSE IF sma_short = NoAvg \/ sma_long = NoAvg THEN "done"
    ELSE "get_prev"

\* await get_prices_from_cache, then up to the next await: the returns on
\* no or too few prices, else the two averages.
det_get_prices(r, ok) ==
    /\ det[r].pc = "get_prices"
    /\ LET prices == get_prices_from_cache(ok, LONG_SMA_PERIOD)
       IN  det' = [det EXCEPT
                      ![r].prices = prices,
                      ![r].head_day = IF ok /\ cacheDays # <<>>
                                      THEN cacheDays[1] ELSE NoDay,
                      ![r].pc = AfterPrices(prices,
                                    calculate_sma(prices, SHORT_SMA_PERIOD),
                                    calculate_sma(prices, LONG_SMA_PERIOD)),
                      ![r].current_sma_short =
                          IF prices = <<>> THEN NoAvg
                          ELSE calculate_sma(prices, SHORT_SMA_PERIOD),
                      ![r].current_sma_long =
                          IF prices = <<>> \/ Len(prices) < LONG_SMA_PERIOD
                          THEN NoAvg
                          ELSE calculate_sma(prices, LONG_SMA_PERIOD)]
    /\ Fails(IF ok THEN 0 ELSE 1)
    /\ UNCHANGED <<notDet, detStarted, signals, previous_sma, triggers, ps,
                   calls, lastSignal, lastEligible, overlapped>>

\* persistence.get_previous_smas: the two fields as floats, (None, None)
\* when the read raises.
get_previous_smas(ok) ==
    IF ok THEN <<Float(previous_sma.sma_50), Float(previous_sma.sma_200)>>
    ELSE <<NoAvg, NoAvg>>

\* await get_previous_smas, then the call of set_previous_smas.
det_get_prev(r, ok) ==
    /\ det[r].pc = "get_prev"
    /\ det' = [det EXCEPT ![r].prev_sma_short = get_previous_smas(ok)[1],
                          ![r].prev_sma_long = get_previous_smas(ok)[2],
                          ![r].pc = "set_prev"]
    /\ Fails(IF ok THEN 0 ELSE 1)
    /\ UNCHANGED <<notDet, detStarted, signals, previous_sma, triggers, ps,
                   calls, lastSignal, lastEligible, overlapped>>

SkipPreviousSmas(ok, sma_short, sma_long) == previous_sma
\* persistence.set_previous_smas: HSET of both fields, an error logged and
\* swallowed.
set_previous_smas(ok, sma_short, sma_long) ==
    IF ok THEN [sma_50 |-> Str(sma_short), sma_200 |-> Str(sma_long)]
    ELSE previous_sma

\* await set_previous_smas, then the decision up to the next await: the
\* return without a signal, or the call of save_signal.
det_set_prev(r, ok) ==
    /\ det[r].pc = "set_prev"
    /\ previous_sma' = set_previous_smas(ok, det[r].current_sma_short,
                                         det[r].current_sma_long)
    /\ LET signal == CrossoverSignal(det[r].current_sma_short,
                                     det[r].current_sma_long,
                                     det[r].prev_sma_short,
                                     det[r].prev_sma_long)
       IN  det' = [det EXCEPT ![r].signal = signal,
                              ![r].pc = IF EmittedSignals(signal) = {}
                                        THEN "done" ELSE "save_signal"]
    /\ Fails(IF ok THEN 0 ELSE 1)
    /\ lastEligible' = [run |-> det[r].run,
                        sma_short |-> det[r].current_sma_short,
                        sma_long |-> det[r].current_sma_long,
                        tied |-> \/ lastEligible.tied
                                 \/ det[r].current_sma_short =
                                        det[r].current_sma_long]
    /\ UNCHANGED <<notDet, detStarted, signals, triggers, ps, calls, lastSignal,
                   overlapped>>

\* persistence.save_signal: insert_one, an error logged and swallowed.
save_signal(ok, signal_data) ==
    IF ok THEN Append(signals, signal_data) ELSE signals

\* await save_signal, then asyncio.create_task(process_signal(...)) into
\* the free slot t, and the return.
det_save_signal(r, ok, t) ==
    /\ det[r].pc = "save_signal"
    /\ signals' = save_signal(ok, [signal_type |-> det[r].signal,
                                   price_at_signal |-> det[r].derived_close_price,
                                   run |-> det[r].run])
    /\ ps_create(t, det[r].signal, det[r].derived_close_price)
    /\ triggers' = Append(triggers, det[r].run)
    /\ det' = [det EXCEPT ![r].pc = "done"]
    /\ Fails(IF ok THEN 0 ELSE 1)
    /\ UNCHANGED <<notDet, detStarted, previous_sma, lastEligible, overlapped>>

-----------------------------------------------------------------------------
(* Initial state: empty stores, nothing started *)

InitStores ==
    /\ position = None
    /\ cache = <<>>
    /\ orders = <<>>
    /\ daily_derived_prices = <<>>
    /\ faults = 0

InitPs ==
    /\ ps = [t \in TaskIds |-> IdleFrame]
    /\ calls = 0
    /\ lastSignal = None
    /\ lastWriter = 0

InitApp ==
    /\ phase = "boot"
    /\ boots = 0
    /\ queue = <<>>
    /\ current_day = NoDay
    /\ last_mid_price = NoPrice
    /\ agg = FreshAgg
    /\ dispatched = <<>>
    /\ cacheStep = "none"

InitHist ==
    /\ lastTick = NoTick
    /\ ordered = TRUE
    /\ orderedDays = {}
    /\ derived = <<>>
    /\ lastKlines = <<>>
    /\ backfillDone = NoBackfill
    /\ cacheDays = <<>>

InitX ==
    /\ xin = <<>>
    /\ xout = {"pending"}

InitWs ==
    /\ listener = [pc |-> "connect", item |-> NoItem, last |-> NoMessage,
                   received |-> 0]
    /\ conn = "none"
    /\ ws_status = None
    /\ sent = 0

InitDet ==
    /\ signals = <<>>
    /\ previous_sma = NoPrev
    /\ det = [r \in DetIds |-> IdleRun]
    /\ detStarted = 0
    /\ lastEligible = NoEligible
    /\ overlapped = FALSE
    /\ triggers = <<>>

InitSma ==
    /\ smaIn = <<>>
    /\ smaOut = <<>>

InitMore == InitWs /\ InitDet /\ InitSma

-----------------------------------------------------------------------------
(* The position state machine driven one call at a time by arbitrary       *)
(* signals: every task slot is free before a call starts.                  *)

ps_start_serial(t, signal_type, price) ==
    /\ \A u \in TaskIds : ~InFlight(u)
    /\ ps_start(t, signal_type, price)

InitPSM == InitStores /\ InitPs /\ InitApp /\ InitHist /\ InitX /\ InitMore

NextPSM ==
    \E t \in TaskIds :
        \/ \E s \in SignalTypes, p \in SignalPrices : ps_start_serial(t, s, p)
        \/ \E ok \in BOOLEAN, h \in BOOLEAN : ps_get_position(t, ok, h)
        \/ \E ok \in BOOLEAN : ps_save_order(t, ok)
        \/ \E ok \in BOOLEAN : ps_set_position(t, ok)

SpecPSM == InitPSM /\ [][NextPSM]_vars

-----------------------------------------------------------------------------
(* The position state machine with calls in flight at the same time: a     *)
(* call starts whenever a task slot is free, and the steps of the calls    *)
(* between their awaits interleave in every order.                         *)

NextConc ==
    \E t \in TaskIds :
        \/ \E s \in SignalTypes, p \in SignalPrices : ps_start(t, s, p)
        \/ \E ok \in BOOLEAN, h \in BOOLEAN : ps_get_position(t, ok, h)
        \/ \E ok \in BOOLEAN : ps_save_order(t, ok)
        \/ \E ok \in BOOLEAN : ps_set_position(t, ok)

SpecConc == InitPSM /\ [][NextConc]_vars

-----------------------------------------------------------------------------
(* Claims about the position state machine (SpecPSM) *)

\* The orders logged by the call in slot t.
OrdersOf(t) == {i \in DOMAIN orders : orders[i].call = ps[t].call}

\* C1: process_signal applied with the stored position FLAT (or absent) and
\* signal BUY appends exactly one BUY order and leaves the position LONG;
\* applied with LONG and SELL it appends exactly one SELL order and leaves
\* the position FLAT.  Stated for runs in which no store operation failed.
C1_TransitionEmitsOneOrder ==
    \A t \in TaskIds :
        (Completed(t) /\ faults = 0) =>
            /\ (ps[t].signal_type = "BUY" /\ ps[t].startPos \in {None, "FLAT"})
                   => /\ Cardinality(OrdersOf(t)) = 1
                      /\ \A i \in OrdersOf(t) : orders[i].side = "BUY"
                      /\ ps[t].endPos = "LONG"
            /\ (ps[t].signal_type = "SELL" /\ ps[t].startPos = "LONG")
                   => /\ Cardinality(OrdersOf(t)) = 1
                      /\ \A i \in OrdersOf(t) : orders[i].side = "SELL"
                      /\ ps[t].endPos = "FLAT"

\* C2: when the write of the order to the order log fails, the stored
\* position after the call equals the stored position before it.
C2_FailedOrderWriteKeepsPosition ==
    \A t \in TaskIds :
        (Completed(t) /\ ps[t].orderWriteFailed) => ps[t].endPos = ps[t].startPos

\* C3: the order of the call that last changed the stored position is in
\* the order log: no position change without its order logged before it.
C3_OrderLoggedBeforePosition ==
    lastWriter # 0 => \E i \in DOMAIN orders : orders[i].call = lastWriter

\* C4: BUY while LONG, SELL while FLAT (or absent) and any unrecognized
\* signal append no order and leave the stored position unchanged; and a
\* SELL that directly follows a SELL appends no order.  Stated for runs in
\* which no store operation failed.
C4_NoOpCombinations ==
    \A t \in TaskIds :
        (Completed(t) /\ faults = 0) =>
            /\ (\/ ps[t].signal_type = "BUY" /\ ps[t].startPos = "LONG"
                \/ ps[t].signal_type = "SELL" /\ ps[t].startPos \in {None, "FLAT"}
                \/ ps[t].signal_type \notin {"BUY", "SELL"})
                   => /\ OrdersOf(t) = {}
                      /\ ps[t].endPos = ps[t].startPos
            /\ (ps[t].signal_type = "SELL" /\ ps[t].prevSignal = "SELL")
                   => OrdersOf(t) = {}

-----------------------------------------------------------------------------
(* The live pipeline: the feed through the queue into the aggregator, from *)
(* a start of main() whose backfill fetched nothing.                       *)

Init ==
    /\ InitStores /\ InitPs /\ InitHist /\ InitX /\ InitMore
    /\ phase = "live"
    /\ boots = 1
    /\ queue = <<>>
    /\ current_day = NoDay
    /\ last_mid_price = NoPrice
    /\ agg = FreshAgg
    /\ dispatched = <<>>
    /\ cacheStep = "none"

Next ==
    \/ \E tick \in Ticks : queue_put(tick)
    \/ dp_get
    \/ \E ok \in BOOLEAN : dp_save_derived_price(ok)
    \/ \E ok \in BOOLEAN : dp_lpush(ok)
    \/ \E ok \in BOOLEAN : dp_ltrim(ok)

Spec == Init /\ [][Next]_vars

-----------------------------------------------------------------------------
(* The application across restarts: the backfill at each start of main(),  *)
(* then the aggregator on a feed that is slower than the aggregator (a     *)
(* message arrives only when the queue is empty) and whose receive times   *)
(* do not go back.                                                         *)

queue_put_slow(tick) ==
    /\ queue = <<>>
    /\ lastTick # NoTick => tick.ts >= lastTick.day
    /\ queue_put(tick)

\* The feed of this specification: one valid quote on each day.
BootTicks == {[ts |-> d, bid |-> 1, ask |-> 1] : d \in BootDays}

InitBoot == InitStores /\ InitPs /\ InitApp /\ InitHist /\ InitX /\ InitMore

NextBoot ==
    \/ \E httpOk \in BOOLEAN, klines \in KlineResponses, bulkOk \in BOOLEAN,
          failAt \in {"none", "delete", "lpush", "ltrim"} :
            fetch_historical_data(httpOk, klines, bulkOk, failAt)
    \/ Restart
    \/ \E tick \in BootTicks : queue_put_slow(tick)
    \/ dp_get
    \/ \E ok \in BOOLEAN : dp_save_derived_price(ok)
    \/ \E ok \in BOOLEAN : dp_lpush(ok)
    \/ \E ok \in BOOLEAN : dp_ltrim(ok)

SpecBoot == InitBoot /\ [][NextBoot]_vars

-----------------------------------------------------------------------------
(* The application after one start of main(): the backfill, the slow feed  *)
(* into the aggregator, the detector tasks it creates and the              *)
(* process_signal tasks they create.                                       *)

\* The feed of this specification: valid quotes with mid 2, which after a
\* backfill of rising closes takes the short average above the long one.
DetTicks == {[ts |-> d, bid |-> 1, ask |-> 3] : d \in Days}

InitDetector == InitBoot

\* A new task takes the free slot of the lowest number.
FreeRun(r) == ~RunInFlight(r) /\ \A q \in DetIds : q < r => RunInFlight(q)
FreeTask(t) == ~InFlight(t) /\ \A u \in TaskIds : u < t => InFlight(u)

\* The store operations of the backfill and the Daily Close save succeed
\* here; those of the cache, the detector and process_signal may fail.
NextDetector ==
    \/ \E klines \in KlineResponses :
            fetch_historical_data(TRUE, klines, TRUE, "none")
    \/ \E tick \in DetTicks : queue_put_slow(tick)
    \/ dp_get
    \/ dp_save_derived_price(TRUE)
    \/ \E ok \in BOOLEAN : dp_lpush(ok)
    \/ \E ok \in BOOLEAN : dp_ltrim(ok)
    \/ \E r \in DetIds : FreeRun(r) /\ det_start(r)
    \/ \E r \in DetIds, ok \in BOOLEAN : det_get_prices(r, ok)
    \/ \E r \in DetIds, ok \in BOOLEAN : det_get_prev(r, ok)
    \/ \E r \in DetIds, ok \in BOOLEAN : det_set_prev(r, ok)
    \/ \E r \in DetIds, ok \in BOOLEAN, t \in TaskIds :
            FreeTask(t) /\ det_save_signal(r, ok, t)
    \/ \E t \in TaskIds, ok \in BOOLEAN, h \in BOOLEAN : ps_get_position(t, ok, h)
    \/ \E t \in TaskIds, ok \in BOOLEAN : ps_save_order(t, ok)
    \/ \E t \in TaskIds, ok \in BOOLEAN : ps_set_position(t, ok)

SpecDetector == InitDetector /\ [][NextDetector]_vars

-----------------------------------------------------------------------------
(* The detector run day after day: one start of main() and a feed of one   *)
(* tick a day with mid 1, 2 or 3, the tick of a day arriving after the     *)
(* tasks created so far have ended, so that the runs are serialized in day *)
(* order.  No store operation fails.                                       *)

SigTicks ==
    {[ts |-> d, bid |-> 1, ask |-> a] :
        d \in Today..(Today + MaxSigDay - 1), a \in {1, 3, 5}}

TasksEnded ==
    /\ detStarted = Len(dispatched)
    /\ \A r \in DetIds : ~RunInFlight(r)
    /\ \A t \in TaskIds : ~InFlight(t)

NextSignals ==
    \/ \E klines \in KlineResponses :
            fetch_historical_data(TRUE, klines, TRUE, "none")
    \/ \E tick \in SigTicks :
          /\ TasksEnded
          /\ agg.pc = "get"
          /\ tick.ts = IF lastTick = NoTick THEN Today ELSE lastTick.day + 1
          /\ queue_put_slow(tick)
    \/ dp_get
    \/ dp_save_derived_price(TRUE)
    \/ dp_lpush(TRUE)
    \/ dp_ltrim(TRUE)
    \/ \E r \in DetIds : FreeRun(r) /\ det_start(r)
    \/ \E r \in DetIds : det_get_prices(r, TRUE)
    \/ \E r \in DetIds : det_get_prev(r, TRUE)
    \/ \E r \in DetIds : det_set_prev(r, TRUE)
    \/ \E r \in DetIds, t \in TaskIds :
            FreeTask(t) /\ det_save_signal(r, TRUE, t)
    \/ \E t \in TaskIds : ps_get_position(t, TRUE, FALSE)
    \/ \E t \in TaskIds : ps_save_order(t, TRUE)
    \/ \E t \in TaskIds : ps_set_position(t, TRUE)

SpecSignals == InitBoot /\ [][NextSignals]_vars

-----------------------------------------------------------------------------
(* calculate_sma on every list of up to LONG_SMA_PERIOD + 1 prices and     *)
(* every period up to LONG_SMA_PERIOD                                      *)

PriceLists ==
    UNION {[1..n -> 1..MaxPrice] : n \in 0..(LONG_SMA_PERIOD + 1)}

InitSmaCalls ==
    /\ InitStores /\ InitPs /\ InitApp /\ InitHist /\ InitX /\ InitWs /\ InitDet
    /\ smaIn \in {<<[prices |-> p, period |-> w]>> :
                      p \in PriceLists, w \in 1..LONG_SMA_PERIOD}
    /\ smaOut = <<>>

NextSma == sma_call

SpecSma == InitSmaCalls /\ [][NextSma]_vars

-----------------------------------------------------------------------------
(* The crossover decision on every combination of averages *)

Avgs == 0..MaxAvg

InitCrossover ==
    /\ InitStores /\ InitPs /\ InitApp /\ InitHist /\ InitMore
    /\ xin \in [short : Avgs, long : Avgs,
                prev_short : Avgs \cup {NoAvg}, prev_long : Avgs \cup {NoAvg}]
    /\ xout = {"pending"}

NextCrossover == decide_crossover

SpecCrossover == InitCrossover /\ [][NextCrossover]_vars

-----------------------------------------------------------------------------
(* Claims about the daily aggregator (Spec) *)

\* C5: the close derived at a day change is that of the completed day
\* current_day, its price is the mid of the last valid tick folded for that
\* day, and no day gets a second close.
C5_CloseIsLastMidOfDay ==
    /\ [][Len(derived') > Len(derived) =>
            /\ lastTick.day = current_day
            /\ derived'[Len(derived')] =
                   [day |-> current_day, price |-> lastTick.mid]]_vars
    /\ [](\A i, j \in DOMAIN derived : i # j => derived[i].day # derived[j].day)

\* Closes were derived for two days, the first with mid 2 and the second
\* with mid 1 as the last of its day.
C5_Witness ==
    /\ Len(derived) = 2
    /\ derived[1].price = 2
    /\ derived[2].price = 1
    /\ agg.pc = "get"

MaxOf(S) == CHOOSE x \in S : \A y \in S : y <= x

\* C6: a close is derived only while folding a valid tick of a day after
\* current_day, one at a time; so a stream of valid, day-ordered ticks over
\* k days has derived k - 1 closes, one for each day but the latest, and
\* with no store failure these are the records of the collection.
C6_ClosesOnlyAtRollover ==
    /\ [][Len(derived') > Len(derived) =>
            /\ queue # <<>>
            /\ Head(queue).bid > 0 /\ Head(queue).ask > 0
            /\ current_day # NoDay
            /\ EventDate(Head(queue).ts) > current_day
            /\ Len(derived') = Len(derived) + 1]_vars
    /\ [](ordered =>
            /\ Len(derived) = IF orderedDays = {} THEN 0
                              ELSE Cardinality(orderedDays) - 1
            /\ {derived[i].day : i \in DOMAIN derived} =
                   IF orderedDays = {} THEN {}
                   ELSE orderedDays \ {MaxOf(orderedDays)})
    /\ []((ordered /\ faults = 0 /\ agg.pc = "get") =>
            /\ Len(daily_derived_prices) = Len(derived)
            /\ \A i \in DOMAIN derived :
                   /\ daily_derived_prices[i].date = isoformat(derived[i].day)
                   /\ daily_derived_prices[i].price = derived[i].price)

\* A valid, day-ordered stream over three days has been folded and its two
\* closes are stored.
C6_Witness ==
    /\ ordered
    /\ Cardinality(orderedDays) = 3
    /\ Len(derived) = 2
    /\ Len(daily_derived_prices) = 2
    /\ agg.pc = "get"

\* C16: taking from the queue a tick with bid <= 0 or ask <= 0, or a tick
\* of a day before current_day, leaves current_day, last_mid_price, the
\* Daily Close collection and the price cache as they were, starts no day
\* change and creates no detector task.
C16_DroppedTickChangesNothing ==
    [][(/\ agg.pc = "get" /\ queue # <<>> /\ queue' = Tail(queue)
        /\ \/ Head(queue).bid <= 0
           \/ Head(queue).ask <= 0
           \/ /\ current_day # NoDay
              /\ EventDate(Head(queue).ts) < current_day)
           => /\ current_day' = current_day
              /\ last_mid_price' = last_mid_price
              /\ daily_derived_prices' = daily_derived_prices
              /\ cache' = cache
              /\ dispatched' = dispatched
              /\ agg' = agg]_vars

\* After a close was derived, a tick that is invalid or of an earlier day
\* was taken from the queue, and the aggregator waits for the next one.
C16_Witness ==
    /\ ~ordered
    /\ Len(derived) >= 1
    /\ Len(dispatched) >= 1
    /\ current_day = Today + 1
    /\ last_mid_price = 2
    /\ queue = <<>>
    /\ agg.pc = "get"

\* C25: current_day is unset exactly when last_mid_price is unset, and
\* current_day never goes back; so whenever the tick at the head of the
\* queue is of a later day than current_day, last_mid_price is set, and
\* current_day moves from one day to another only at the end of a day
\* change that derived the close of the day left, never by the branch that
\* skips the derivation.
C25_DayAndPriceSetTogether ==
    /\ []((current_day = NoDay) <=> (last_mid_price = NoPrice))
    /\ [][current_day' >= current_day]_vars
    /\ []((/\ agg.pc = "get" /\ queue # <<>> /\ current_day # NoDay
           /\ EventDate(Head(queue).ts) > current_day)
              => last_mid_price # NoPrice)
    /\ [][(current_day # NoDay /\ current_day' # current_day) =>
            /\ agg.pc \in {"lpush", "ltrim"}
            /\ agg.day = current_day
            /\ derived # <<>>
            /\ derived[Len(derived)] = [day |-> current_day,
                                        price |-> last_mid_price]
            /\ dispatched' = Append(dispatched,
                                    [calculation_date |-> current_day,
                                     derived_close_price |-> last_mid_price])]_vars

\* After the first valid tick the day has changed with a close derived,
\* and a tick of a later day is at the head of the queue.
C25_Witness ==
    /\ Len(derived) = 1
    /\ Len(dispatched) = 1
    /\ current_day = Today + 1
    /\ last_mid_price # NoPrice
    /\ agg.pc = "get"
    /\ queue # <<>>
    /\ EventDate(Head(queue).ts) > current_day

-----------------------------------------------------------------------------
(* Claim about the crossover decision (SpecCrossover) *)

PrevExist == xin.prev_short # NoAvg /\ xin.prev_long # NoAvg

\* C7: BUY is emitted exactly when both previous averages exist, short is
\* above long and was not above it before; SELL exactly when both exist,
\* short is below long and was not below it before; nothing else is ever
\* emitted, and never both.
C7_CrossoverDecision ==
    xout # {"pending"} =>
        /\ ("BUY" \in xout) <=> (/\ PrevExist
                                 /\ xin.short > xin.long
                                 /\ xin.prev_short <= xin.prev_long)
        /\ ("SELL" \in xout) <=> (/\ PrevExist
                                  /\ xin.short < xin.long
                                  /\ xin.prev_short >= xin.prev_long)
        /\ xout \subseteq {"BUY", "SELL"}
        /\ Cardinality(xout) <= 1

\* The decision was taken where the averages were equal before and short is
\* above long now: the boundary case of the golden cross.
C7_Witness ==
    /\ xout = {"BUY"}
    /\ xin.prev_short = xin.prev_long

-----------------------------------------------------------------------------
(* Claims about the stores across backfill and live day changes (SpecBoot) *)

Take(seq, n) == SubSeq(seq, 1, IF n < Len(seq) THEN n ELSE Len(seq))
CachedPrices == [i \in DOMAIN cache |-> Float(cache[i])]

\* C8: after a backfill has populated the cache, the cached prices are the
\* parsed closes most recent first, cut to the newest DAYS_HISTORY_NEEDED.
\* Stated for runs in which no store operation failed.
C8_BackfillMostRecentFirst ==
    (cacheStep = "backfilled" /\ faults = 0) =>
        CachedPrices =
            Take(Reverse([i \in DOMAIN lastKlines |-> lastKlines[i].close]),
                 DAYS_HISTORY_NEEDED)

\* The days of the tail that a trim to max_len entries drops from days.
Dropped(days, max_len) == {days[i] : i \in (max_len + 1)..Len(days)}
Kept(days, max_len) == {days[i] : i \in 1..(IF max_len < Len(days) THEN max_len ELSE Len(days))}

\* C9: after every completed cache-population step the cache holds at most
\* LONG_SMA_PERIOD + 50 entries, and what a step evicts is older than all it
\* keeps: for the backfill the parsed klines it did not keep, for a live day
\* change the tail dropped by the trim.  The evictions are stated for runs
\* in which no store operation failed.
C9_CacheBoundedEvictsOldest ==
    /\ [](cacheStep \in {"backfilled", "pushed"} =>
            Len(cache) <= LONG_SMA_PERIOD + CacheMargin)
    /\ []((cacheStep = "backfilled" /\ faults = 0) =>
            \A i \in DOMAIN lastKlines :
                (\A j \in DOMAIN cacheDays : cacheDays[j] # lastKlines[i].day)
                    => \A j \in DOMAIN cacheDays : lastKlines[i].day < cacheDays[j])
    /\ [][(agg.pc = "ltrim" /\ cacheStep' = "pushed" /\ faults' = 0) =>
            \A d \in Dropped(cacheDays, LONG_SMA_PERIOD + CacheMargin) :
                \A k \in Kept(cacheDays, LONG_SMA_PERIOD + CacheMargin) : d <= k]_vars

\* C10: the Daily Close collection never holds two records of one
\* (day, symbol).
C10_OneCloseRecordPerDay ==
    \A i, j \in DOMAIN daily_derived_prices :
        (/\ daily_derived_prices[i].date = daily_derived_prices[j].date
         /\ daily_derived_prices[i].symbol = daily_derived_prices[j].symbol)
            => i = j

\* A record written by the backfill has been overwritten by the live close
\* of its day, and two starts of main() have written their klines.
C10_Witness ==
    /\ boots = 2
    /\ phase = "live"
    /\ Len(lastKlines) > 1
    /\ \E i \in DOMAIN daily_derived_prices :
           /\ daily_derived_prices[i].is_historical
           /\ daily_derived_prices[i].price # KlineClose(daily_derived_prices[i].date.iso)

\* C11: a backfill that returns the klines of the backfill before it, with
\* no live save in between, leaves the Daily Close records (keys and prices)
\* as the first one left them.
C11_BackfillIdempotent ==
    [][(/\ phase = "boot" /\ phase' = "live"
        /\ backfillDone # NoBackfill
        /\ lastKlines' = backfillDone.klines)
           => Records(daily_derived_prices') = backfillDone.records]_vars

\* The same klines have been saved by two starts of main() in a row.
C11_Witness ==
    /\ backfillDone.runs = 2
    /\ Len(backfillDone.klines) >= DAYS_HISTORY_NEEDED
    /\ boots = 2

-----------------------------------------------------------------------------
(* The ingestor, the queue and the aggregator.  Every step of the two      *)
(* coroutines that is enabled is eventually taken; messages arrive and the *)
(* connection is lost when the environment chooses.  The store operations  *)
(* of the aggregator succeed here; the status write may fail.              *)

InitListener == Init

NextListener ==
    \/ \E ok \in BOOLEAN : ws_connect(ok)
    \/ \E ok \in BOOLEAN : ws_update_status(ok)
    \/ \E msg \in Messages : ws_recv(Ticker(msg))
    \/ ws_put_resume
    \/ ws_lost
    \/ ws_recv_closed
    \/ ws_sleep
    \/ dp_get
    \/ dp_save_derived_price(TRUE)
    \/ dp_lpush(TRUE)
    \/ dp_ltrim(TRUE)

SpecListener ==
    /\ InitListener /\ [][NextListener]_vars
    /\ WF_vars(\E ok \in BOOLEAN : ws_connect(ok))
    /\ WF_vars(\E ok \in BOOLEAN : ws_update_status(ok))
    /\ WF_vars(ws_put_resume)
    /\ WF_vars(ws_recv_closed)
    /\ WF_vars(ws_sleep)
    /\ WF_vars(dp_get)
    /\ WF_vars(dp_save_derived_price(TRUE))
    /\ WF_vars(dp_lpush(TRUE))
    /\ WF_vars(dp_ltrim(TRUE))

\* The listener on a feed that also carries messages that are not ticker
\* messages of the instrument, with the aggregator draining the queue.
RawMessages == {Ticker(m) : m \in Messages} \cup BadMessages

NextMessages ==
    \/ \E ok \in BOOLEAN : ws_connect(ok)
    \/ \E ok \in BOOLEAN : ws_update_status(ok)
    \/ \E raw \in RawMessages : ws_recv(raw)
    \/ ws_put_resume
    \/ ws_lost
    \/ ws_recv_closed
    \/ ws_sleep
    \/ dp_get
    \/ dp_save_derived_price(TRUE)
    \/ dp_lpush(TRUE)
    \/ dp_ltrim(TRUE)

SpecMessages == InitListener /\ [][NextMessages]_vars

\* The message is not valid JSON, lacks bid or ask, has a bid or ask that
\* is not a number, or is for another instrument.
Malformed(raw) ==
    \/ raw.kind = "not_json"
    \/ raw.kind = "not_object"
    \/ raw.b = "missing" \/ raw.a = "missing"
    \/ raw.b \in {"empty", "text"} \/ raw.a \in {"empty", "text"}
    \/ raw.s # SYMBOL

\* C23: receiving a message that is not valid JSON, lacks bid or ask, has
\* a bid or ask that is not a number, or is for another instrument puts
\* nothing in the queue and suspends no put, and leaves the connection
\* open and its status as it was, with the listener back at the receive
\* of the same connection.
C23_MalformedMessageSkipped ==
    [][(listener'.received = listener.received + 1 /\ Malformed(listener'.last)) =>
            /\ queue' = queue
            /\ sent' = sent
            /\ listener'.pc = "recv" /\ listener'.item = NoItem
            /\ conn = "open" /\ conn' = "open"
            /\ ws_status' = ws_status]_vars

C23_Witness ==
    /\ listener.received = sent + MaxSkipped
    /\ sent >= 1
    /\ Malformed(listener.last)
    /\ listener.last.s # SYMBOL
    /\ listener.pc = "recv" /\ conn = "open"

\* The update_ids of the items in the queue or in the suspended put.
Pending == IF listener.pc = "put" THEN {listener.item.update_id} ELSE {}
InFlightIds == {queue[i].update_id : i \in DOMAIN queue} \cup Pending

\* C12: the queue never holds more than QueueMaxSize items; a put on a
\* full queue suspends the listener, which resumes only into a queue with
\* room; an item the listener put or is putting leaves only by the
\* aggregator's dequeue, and every one is dequeued in the end.
C12_QueueBackpressure ==
    /\ [](Len(queue) <= QueueMaxSize)
    /\ [][(sent' = sent + 1) =>
            /\ sent' \in {queue'[i].update_id : i \in DOMAIN queue'}
                   \cup (IF listener'.pc = "put"
                         THEN {listener'.item.update_id} ELSE {})
            /\ (Len(queue) = QueueMaxSize) =>
                   (listener'.pc = "put" /\ queue' = queue)]_vars
    /\ [][(listener.pc = "put" /\ listener'.pc # "put") =>
            /\ Len(queue) < QueueMaxSize
            /\ queue' = Append(queue, listener.item)]_vars
    /\ [][\A k \in 1..MaxTicks :
            (/\ k \in InFlightIds
             /\ k \notin {queue'[i].update_id : i \in DOMAIN queue'}
                          \cup (IF listener'.pc = "put"
                                THEN {listener'.item.update_id} ELSE {}))
                => (/\ agg.pc = "get" /\ queue # <<>>
                    /\ Head(queue).update_id = k
                    /\ queue' = Tail(queue))]_vars
    /\ \A k \in 1..MaxTicks : (sent >= k) ~> (sent >= k /\ k \notin InFlightIds)

\* The listener is suspended in a put on a full queue.
C12_Witness ==
    /\ listener.pc = "put"
    /\ Len(queue) = QueueMaxSize
    /\ sent = QueueMaxSize + 1

\* The update_ids of a queue content, and the number of items dequeued.
IdsOf(q) == {q[i].update_id : i \in DOMAIN q}
Dequeued == sent - Cardinality(InFlightIds)

\* C13: the queue changes only by a put at its end or by the aggregator
\* taking one item; the items wait in the order they were put; and the
\* aggregator, back at queue.get() after folding the item before, takes
\* the item put earliest of those not yet taken.
C13_StrictFifo ==
    /\ [](/\ \A i, j \in DOMAIN queue :
                i < j => queue[i].update_id < queue[j].update_id
          /\ \A k \in Pending : \A i \in DOMAIN queue : queue[i].update_id < k)
    /\ [][queue' # queue =>
            \/ \E item \in {listener.item} \cup
                            {[ts |-> m.ts, bid |-> m.bid, ask |-> m.ask,
                              update_id |-> sent + 1] : m \in Messages} :
                   queue' = Append(queue, item)
            \/ /\ agg.pc = "get"
               /\ Len(queue') = Len(queue) - 1
               /\ IdsOf(queue) \ IdsOf(queue') = {Dequeued + 1}
               /\ \A k \in IdsOf(queue') : k > Dequeued + 1]_vars

\* The first item has been folded while the second and third wait in order.
C13_Witness ==
    /\ sent = 3
    /\ Len(queue) = 2
    /\ queue[1].update_id = 2
    /\ queue[2].update_id = 3

Reporting == listener.pc \in {"st_disconnected", "st_error"}

\* C14: a failed connect leads to the report of "error" and a connection
\* that is lost to the report of "disconnected"; the report is followed by
\* the delay and the delay by the next connect, and nothing else; so every
\* loss and every failed connect leads to a new connect, without end.
C14_ReconnectsForever ==
    /\ [][(listener.pc = "connect" /\ listener'.pc # "connect") =>
            \/ listener'.pc = "st_connected" /\ conn' = "open"
            \/ listener'.pc = "st_error" /\ conn' # "open"]_vars
    /\ [][(Reporting /\ listener' # listener) =>
            /\ listener'.pc = "sleep"
            /\ (faults' = faults) => ws_status' = StatusValue(listener.pc)]_vars
    /\ [][(listener.pc = "sleep" /\ listener' # listener) =>
            listener'.pc = "connect"]_vars
    /\ [][(listener'.pc = "sleep" /\ listener.pc # "sleep") => Reporting]_vars
    /\ (conn = "closed") ~> (listener.pc = "st_disconnected")
    /\ Reporting ~> (listener.pc = "sleep")
    /\ (listener.pc = "sleep") ~> (listener.pc = "connect")
    /\ []<>(listener.pc \in {"connect", "recv", "put"})

\* After a lost connection was reported the listener has connected again,
\* and this connect has failed.
C14_Witness ==
    /\ ws_status = "disconnected"
    /\ listener.pc = "st_error"
    /\ sent > 0

\* C24: a connection opens only into the report of "connected", and no
\* message is received between the opening and that report; and, when no
\* status write has failed, the status is "connected" while the listener
\* receives or puts, and "disconnected" or "error" while it waits to
\* reconnect.
C24_StatusFollowsConnection ==
    /\ [][(conn' = "open" /\ conn # "open") =>
            listener'.pc = "st_connected"]_vars
    /\ [][(listener.pc = "st_connected" /\ listener' # listener) =>
            /\ listener'.pc = "recv"
            /\ listener'.received = listener.received
            /\ (faults' = faults) => ws_status' = "connected"]_vars
    /\ [][(listener'.received = listener.received + 1 /\ faults = 0) =>
            ws_status = "connected"]_vars
    /\ []((listener.pc \in {"recv", "put"} /\ faults = 0) =>
            ws_status = "connected")
    /\ []((listener.pc = "sleep" /\ faults = 0) =>
            ws_status \in {"disconnected", "error"})

\* A connection was opened and reported, a message received on it, the
\* connection lost and the loss reported; the listener waits to reconnect.
C24_Witness ==
    /\ listener.pc = "sleep"
    /\ ws_status = "disconnected"
    /\ listener.received >= 1
    /\ faults = 0

-----------------------------------------------------------------------------
(* Claims about the detector and the tasks it creates (SpecDetector) *)

\* The Signal records of type signal_type saved by detector run n.
SignalsOf(n, signal_type) ==
    {i \in DOMAIN signals : /\ signals[i].run = n
                            /\ signals[i].signal_type = signal_type}

\* C15: the Signal log holds a record of the run and type that triggered
\* the call which last changed the stored position, and one for every
\* logged order: no position change and no order without its signal saved.
C15_SignalSavedBeforeTransition ==
    /\ lastWriter # 0 =>
           SignalsOf(triggers[lastWriter],
                     IF position = "LONG" THEN "BUY" ELSE "SELL") # {}
    /\ \A j \in DOMAIN orders :
           SignalsOf(triggers[orders[j].call], orders[j].side) # {}

-----------------------------------------------------------------------------
(* Claim about calculate_sma (SpecSma) *)

RECURSIVE SumOfFirst(_, _)
SumOfFirst(p, n) == IF n = 0 THEN 0 ELSE p[n] + SumOfFirst(p, n - 1)

\* C17: for every price list and period >= 1, calculate_sma returns the
\* mean of the first period entries when the list has at least period
\* entries, and None when the list is empty or shorter.
C17_SmaIsMeanOfFirst ==
    smaOut # <<>> =>
        LET p == smaIn[1].prices
            w == smaIn[1].period
        IN  IF Len(p) >= w
            THEN /\ smaOut[1] # NoAvg
                 /\ smaOut[1] * w = SumOfFirst(p, w) * AvgDen
            ELSE smaOut[1] = NoAvg

\* The mean of the first two of four prices, whose last two have another
\* mean.
C17_Witness ==
    /\ smaOut # <<>>
    /\ smaIn[1].prices = <<1, 2, 3, 3>>
    /\ smaIn[1].period = 2
    /\ smaOut[1] * 2 = 3 * AvgDen

\* The hash as set_previous_smas writes it.
SmaHash(sma_short, sma_long) ==
    [sma_50 |-> Str(sma_short), sma_200 |-> Str(sma_long)]

\* C18: a run that finds LONG_SMA_PERIOD prices computes both averages and
\* goes on to read and then to overwrite the previous averages with them,
\* whatever it read and whatever signal follows; and while no two runs
\* have overlapped, what a run reads is what the latest run that came to
\* store computed.  Stated for store operations that do not fail.
C18_PreviousAveragesOverwritten ==
    /\ [][\A r \in DetIds :
            (/\ det[r].pc = "get_prices" /\ det'[r].pc # "get_prices"
             /\ Len(det'[r].prices) >= LONG_SMA_PERIOD)
                => /\ det'[r].pc = "get_prev"
                   /\ det'[r].current_sma_short * SHORT_SMA_PERIOD =
                          SumOfFirst(det'[r].prices, SHORT_SMA_PERIOD) * AvgDen
                   /\ det'[r].current_sma_long * LONG_SMA_PERIOD =
                          SumOfFirst(det'[r].prices, LONG_SMA_PERIOD) * AvgDen]_vars
    /\ [][\A r \in DetIds :
            (det[r].pc = "get_prev" /\ det'[r] # det[r])
                => /\ det'[r].pc = "set_prev"
                   /\ det'[r].current_sma_short = det[r].current_sma_short
                   /\ det'[r].current_sma_long = det[r].current_sma_long]_vars
    /\ [][\A r \in DetIds :
            (det[r].pc = "set_prev" /\ det'[r] # det[r] /\ faults' = faults)
                => previous_sma' = SmaHash(det[r].current_sma_short,
                                           det[r].current_sma_long)]_vars
    /\ [][\A r \in DetIds :
            (/\ det[r].pc = "get_prev" /\ det'[r] # det[r]
             /\ faults' = 0 /\ ~overlapped)
                => /\ det'[r].prev_sma_short = lastEligible.sma_short
                   /\ det'[r].prev_sma_long = lastEligible.sma_long]_vars

\* The second run with enough prices has read the averages of the first,
\* which had none to read, and has left its own averages as the previous
\* ones.
C18_Witness ==
    \E r \in DetIds :
        /\ det[r].pc = "done"
        /\ det[r].run = 2
        /\ det[r].prev_sma_short # NoAvg
        /\ det[r].prev_sma_short # det[r].current_sma_short
        /\ previous_sma = SmaHash(det[r].current_sma_short,
                                  det[r].current_sma_long)
        /\ lastEligible.run = det[r].run
        /\ faults = 0

\* C19: the step in which a run gets no prices or fewer than
\* LONG_SMA_PERIOD prices ends the run and leaves the previous averages,
\* the Signal log, the order log and the position as they were and creates
\* no process_signal task; the start of a run changes none of them either,
\* and a run that has ended takes no further step.
C19_InsufficientDataNoEffect ==
    /\ [][\A r \in DetIds :
            (/\ det[r].pc = "get_prices" /\ det'[r] # det[r]
             /\ Len(det'[r].prices) < LONG_SMA_PERIOD)
                => /\ det'[r].pc = "done"
                   /\ UNCHANGED <<previous_sma, signals, orders, position,
                                  triggers, calls, ps>>]_vars
    /\ [][\A r \in DetIds :
            (det'[r].pc = "get_prices" /\ det[r].pc # "get_prices")
                => UNCHANGED <<previous_sma, signals, orders, position,
                               triggers, calls, ps>>]_vars
    /\ [][\A r \in DetIds :
            (det[r].pc = "done" /\ det'[r] # det[r])
                => /\ det'[r].pc = "get_prices"
                   /\ det'[r].run > det[r].run]_vars

\* The second run after a backfill that cached nothing has ended on two
\* prices, with no previous averages, no signal and no call made.
C19_Witness ==
    /\ \E r \in DetIds :
           /\ det[r].pc = "done"
           /\ det[r].run = 2
           /\ Len(det[r].prices) = SHORT_SMA_PERIOD
           /\ Len(det[r].prices) < LONG_SMA_PERIOD
    /\ previous_sma = NoPrev
    /\ signals = <<>>
    /\ orders = <<>>
    /\ calls = 0
    /\ faults = 0

-----------------------------------------------------------------------------
(* Claim about process_signal calls in flight together (SpecConc) *)

\* C20: the order log alternates BUY, SELL, BUY, ... from a BUY, and while
\* no call is in flight the stored position is LONG exactly when the last
\* logged order is a BUY.  Stated for runs in which no store operation
\* failed.
C20_OrdersAlternate ==
    faults = 0 =>
        /\ \A i \in 1..(Len(orders) - 1) : orders[i].side # orders[i + 1].side
        /\ orders # <<>> => orders[1].side = "BUY"
        /\ (\A t \in TaskIds : ~InFlight(t)) =>
               ((position = "LONG") <=>
                    (orders # <<>> /\ orders[Len(orders)].side = "BUY"))

\* C21: back at queue.get() the detector tasks created are, one for one
\* and in order, the closes derived; and the newest entry of the window a
\* task has read is the close of the day the task was created for.  The
\* window is stated for runs in which no store operation failed.
C21_DetectorSeesOwnClose ==
    /\ agg.pc = "get" =>
           /\ Len(dispatched) = Len(derived)
           /\ \A i \in DOMAIN derived :
                  /\ dispatched[i].calculation_date = derived[i].day
                  /\ dispatched[i].derived_close_price = derived[i].price
    /\ \A r \in DetIds :
           (det[r].pc \notin {"idle", "get_prices"} /\ faults = 0) =>
               /\ det[r].prices # <<>>
               /\ det[r].prices[1] = det[r].derived_close_price
               /\ det[r].head_day = det[r].calculation_date

-----------------------------------------------------------------------------
(* Claim about the sequence of signals (SpecSignals) *)

Alternates(log) ==
    \A i \in 1..(Len(log) - 1) : log[i].signal_type # log[i + 1].signal_type

=============================================================================
